---- MODULE Spec2Model ----
(***************************************************************************)
(* Model of socorro/processor/processor_pipeline.py: ProcessorPipeline,    *)
(* the rule pipeline that turns a raw crash into a processed crash.        *)
(*                                                                         *)
(* Strings are sequences of tokens.  A token is either the separator ";",  *)
(* a single blank " ", or a word (text holding no ";" and no leading or    *)
(* trailing blank).  str.split(";"), str.strip() and "; ".join() are       *)
(* computed on these sequences as Python computes them on characters.      *)
(* A Python dict is a function whose DOMAIN is the set of keys present.    *)
(***************************************************************************)
EXTENDS Integers, Sequences, FiniteSets, TLC

VARIABLES
    pc,                       \* position of the caller / of process_crash / of close
    rules,                    \* self.rules
    processed_crash,          \* the processed crash handed to process_crash
    raw_crash,                \* the raw crash of the current invocation
    processor_meta_data,      \* processor_meta_data of the current invocation
    original_processor_notes, \* local of process_crash
    rule_index,               \* position of "for rule in self.rules" (1-based)
    clock,                    \* the next value utc_now() returns
    runs,                     \* process_crash invocations started so far
    acted,                    \* per rule position: act() calls in this invocation
    failures,                 \* this invocation's caught failures, in order
    report_failed,            \* a telemetry report failed in this invocation
    propagated,               \* class of the exception that left the call, or "none"
    notes_before,             \* processed_crash.processor_notes when the call began
    started_before,           \* processed_crash.started_datetime when the call began
    closed,                   \* per rule position: close() calls received
    workers                   \* per thread: the locals and arguments of its call

vars == <<pc, rules, processed_crash, raw_crash, processor_meta_data,
          original_processor_notes, rule_index, clock, runs, acted, failures,
          report_failed, propagated, notes_before, started_before, closed,
          workers>>

----------------------------------------------------------------------------
(* Bounds *)

MaxRuns == 2

----------------------------------------------------------------------------
(* Python dicts *)

EmptyDict == [k \in {} |-> 0]

Has(d, k) == k \in DOMAIN d

Put(d, k, v) == [x \in (DOMAIN d) \cup {k} |-> IF x = k THEN v ELSE d[x]]

Get(d, k, default) == IF Has(d, k) THEN d[k] ELSE default

----------------------------------------------------------------------------
(* Python strings as token sequences *)

Word(w) == <<w>>

RECURSIVE lstrip(_)
lstrip(s) == IF s # <<>> /\ Head(s) = " " THEN lstrip(Tail(s)) ELSE s

RECURSIVE rstrip(_)
rstrip(s) ==
    IF s # <<>> /\ s[Len(s)] = " " THEN rstrip(SubSeq(s, 1, Len(s) - 1)) ELSE s

strip(s) == rstrip(lstrip(s))

RECURSIVE split(_)
split(s) ==
    IF \A k \in 1..Len(s) : s[k] # ";"
    THEN <<s>>
    ELSE LET k == CHOOSE j \in 1..Len(s) :
                      s[j] = ";" /\ \A m \in 1..(j - 1) : s[m] # ";"
         IN  <<SubSeq(s, 1, k - 1)>> \o split(SubSeq(s, k + 1, Len(s)))

RECURSIVE join(_)
join(list) ==
    IF list = <<>> THEN <<>>
    ELSE IF Len(list) = 1 THEN list[1]
    ELSE list[1] \o <<";", " ">> \o join(Tail(list))

\* "%s" % value for a datetime value
str(value) == ToString(value)

----------------------------------------------------------------------------
(* Configuration and the rule classes *)

processor_name == Word("processor-1")

class_name == Word("ProcessorPipeline")

EMPTY_SIGNATURE == Word("EMPTY: crash failed to process")

\* Variant: the jit classifier is listed before the signature generator.
get_ruleset_jit_before_signature ==
    << "DeNullRule", "DeNoneRule", "ConvertModuleSignatureInfoRule",
       "ProductRewrite", "FenixVersionRewriteRule", "ESRVersionRewrite",
       "PluginContentURL", "PluginUserComment", "IdentifierRule",
       "MinidumpSha256Rule", "BreakpadStackwalkerRule2015", "ProductRule",
       "UserDataRule", "EnvironmentRule", "PluginRule", "AddonsRule",
       "DatesAndTimesRule", "OutOfMemoryBinaryRule", "PHCRule",
       "JavaProcessRule", "MozCrashReasonRule", "CrashingThreadRule",
       "CPUInfoRule", "OSInfoRule", "BetaVersionRule", "ExploitablityRule",
       "FlashVersionRule", "OSPrettyVersionRule", "TopMostFilesRule",
       "ModulesInStackRule", "ThemePrettyNameRule", "MemoryReportExtraction",
       "JitCrashCategorizeRule", "SignatureGeneratorRule" >>

get_ruleset ==
    << "DeNullRule", "DeNoneRule", "ConvertModuleSignatureInfoRule",
       "ProductRewrite", "FenixVersionRewriteRule", "ESRVersionRewrite",
       "PluginContentURL", "PluginUserComment", "IdentifierRule",
       "MinidumpSha256Rule", "BreakpadStackwalkerRule2015", "ProductRule",
       "UserDataRule", "EnvironmentRule", "PluginRule", "AddonsRule",
       "DatesAndTimesRule", "OutOfMemoryBinaryRule", "PHCRule",
       "JavaProcessRule", "MozCrashReasonRule", "CrashingThreadRule",
       "CPUInfoRule", "OSInfoRule", "BetaVersionRule", "ExploitablityRule",
       "FlashVersionRule", "OSPrettyVersionRule", "TopMostFilesRule",
       "ModulesInStackRule", "ThemePrettyNameRule", "MemoryReportExtraction",
       "SignatureGeneratorRule", "JitCrashCategorizeRule" >>

\* The dependencies stated by the comments of get_ruleset: the signature is
\* generated after all the processing it depends on, and the jit classifier
\* is last since it depends on signature generation.
DependencyOrdered(rs) ==
    \A a, b \in 1..Len(rs) :
        /\ (rs[a] = "SignatureGeneratorRule"
              /\ rs[b] \notin {"SignatureGeneratorRule", "JitCrashCategorizeRule"})
           => b < a
        /\ (rs[a] = "JitCrashCategorizeRule" /\ rs[b] # "JitCrashCategorizeRule")
           => b < a

\* The rules arguments the callers of the constructor supply.
RuleArgs ==
    { << "ProductRule", "SignatureGeneratorRule", "JitCrashCategorizeRule" >>,
      << "JitCrashCategorizeRule", "SignatureGeneratorRule" >>,
      << "SignatureGeneratorRule", "ProductRule" >>,
      << "OSInfoRule" >> }

\* The rules get_ruleset builds with the command line of an external program.
ExternalToolRules == {"BreakpadStackwalkerRule2015", "JitCrashCategorizeRule"}

\* Exception classes a rule raises.  KeyError and MemoryError derive from
\* Exception; SystemExit derives from BaseException only.
ExceptionClasses == {"KeyError", "MemoryError", "SystemExit"}

IsExceptionSubclass(cls) == cls \in {"KeyError", "MemoryError"}

\* The classes the act() of a rule class raises in the modelled workload:
\* a missing field for every rule, and for the rules that do the heavy work
\* an exhausted resource or the interpreter being shut down.
RaisedBy(rule) ==
    IF rule = "SignatureGeneratorRule" THEN {"KeyError", "MemoryError", "SystemExit"}
    ELSE IF rule = "JitCrashCategorizeRule" THEN {"KeyError", "SystemExit"}
    ELSE {"KeyError"}

\* Outcomes of the transport behind sentry_client.capture_error
TelemetryOutcomes == {"sent", "transport_failed"}

\* Raw crashes handed to process_crash: with and without a uuid.
RawCrashes ==
    { Put(EmptyDict, "uuid", "abc-123"),
      Put(EmptyDict, "ProductName", "Firefox") }

\* Processed crashes handed to the first process_crash: a fresh one, and
\* stored ones from earlier processing.
StoredCrash ==
    Put(Put(Put(Put(Put(Put(Put(EmptyDict,
        "processor_notes", <<"A", ";", " ", "B">>),
        "started_datetime", 0), "startedDateTime", 0),
        "completed_datetime", 0), "completeddatetime", 0),
        "success", TRUE), "signature", Word("OOM | small"))

ProcessedCrashes ==
    { EmptyDict,
      StoredCrash,
      Put(EmptyDict, "processor_notes", <<"A", " ", ";", "B">>) }

----------------------------------------------------------------------------
(* Collaborators of the pipeline *)

\* utc_now(): the clock reading; successive readings differ.
utc_now == clock

\* logging.Logger.info returns None.
logger_info == "None"

\* rule.act(raw_crash, raw_dumps, processed_crash, processor_meta_data) when
\* it returns: the rule writes its fields into the processed crash.
act(rule, crash) ==
    IF rule = "SignatureGeneratorRule"
    THEN Put(Put(crash, rule, TRUE), "signature", Word("OOM | small"))
    ELSE Put(crash, rule, TRUE)

\* sentry_client.capture_error: TRUE iff the call raises to its caller.
capture_error_raises(outcome) == FALSE

----------------------------------------------------------------------------
(* ProcessorPipeline.__init__ *)

selected_rules(rulesArg) == IF rulesArg = <<>> THEN get_ruleset ELSE rulesArg

Construct(rulesArg) ==
    /\ pc = "new"
    /\ rules' = selected_rules(rulesArg)
    /\ closed' = [k \in 1..Len(selected_rules(rulesArg)) |-> 0]
    /\ acted' = [k \in 1..Len(selected_rules(rulesArg)) |-> 0]
    /\ pc' = "idle"
    /\ UNCHANGED <<workers, processed_crash, raw_crash, processor_meta_data,
                   original_processor_notes, rule_index, clock, runs,
                   failures, report_failed, propagated, notes_before,
                   started_before>>

----------------------------------------------------------------------------
(* ProcessorPipeline.process_crash *)

initial_processor_notes == <<processor_name, class_name>>

split_notes(notes) ==
    LET parts == split(notes) IN [k \in 1..Len(parts) |-> strip(parts[k])]

\* Variant: started_datetime is read after line 259 has overwritten it.
earlier_processing_note_after_overwrite(crash) ==
    Word("earlier processing: " \o str(utc_now))

earlier_processing_note(crash) ==
    Word("earlier processing: " \o
         (IF Has(crash, "started_datetime")
          THEN str(crash["started_datetime"]) ELSE "Unknown Date"))

\* Variant: success starts out TRUE.
initial_success_true == TRUE

\* Line 258.
initial_success == FALSE

\* Variant: crash_id = raw_crash.get("uuid"), which does not raise.
uuid_lookup_never_raises(raw) == FALSE

\* Line 264: raw_crash["uuid"] raises KeyError when the key is missing.
uuid_lookup_raises(raw) == ~Has(raw, "uuid")

\* Variant: the legacy field takes a second reading of the clock.
startedDateTime_second_reading(started_datetime, later_now) == later_now

startedDateTime_value(started_datetime, later_now) == started_datetime

completeddatetime_value(completed_datetime, later_now) == completed_datetime

\* Variant: "except KeyError" in place of "except Exception".
is_caught_KeyError_only(cls) == cls = "KeyError"

\* Variant: a bare "except:" in place of "except Exception".
is_caught_everything(cls) == TRUE

is_caught(cls) == IsExceptionSubclass(cls)

\* Variant: the note is built from str(exc), the message of the exception.
rule_failure_note_with_message(rule, cls) ==
    Word("rule " \o rule \o " failed: " \o "details of " \o cls)

rule_failure_note(rule, cls) == Word("rule " \o rule \o " failed: " \o cls)

\* Variant: the note is put at the front of the list (insert(0, note)).
append_note_in_front(notes, note) == <<note>> \o notes

\* list.append
append_note(notes, note) == Append(notes, note)

\* Variant: the handler leaves the loop ("break") after noting the failure.
next_rule_after_failure_break(index, count) == count + 1

\* The loop goes on with the next rule after the except block.
\* Variant: the rule after a failed one is passed over.
next_rule_after_failure_skip(index, count) == index + 2

next_rule_after_failure(index, count) == index + 1

\* Variant: success tells whether every rule succeeded.
success_value_all_rules_ok(failed_rules) == failed_rules = <<>>

success_value(failed_rules) == TRUE

\* Variant: the prior notes are put in front of the notes of this run.
all_processor_notes_prior_first(current, original) == original \o current

\* Variant: the prior notes are not put back.
all_processor_notes_without_prior(current, original) == current

all_processor_notes(current, original) == current \o original

\* Lines 239-267: everything before the rule loop.
BeginProcessCrash(raw) ==
    /\ pc \in {"idle", "returned", "raised"}
    /\ runs < MaxRuns
    /\ runs' = runs + 1
    /\ raw_crash' = raw
    /\ notes_before' = Get(processed_crash, "processor_notes", <<"<absent>">>)
    /\ started_before' = Get(processed_crash, "started_datetime", -1)
    /\ original_processor_notes' =
         IF Has(processed_crash, "processor_notes")
         THEN split_notes(processed_crash["processor_notes"])
         ELSE <<>>
    /\ processed_crash' =
         Put(Put(Put(Put(processed_crash,
             "success", initial_success),
             "started_datetime", utc_now),
             "startedDateTime", startedDateTime_value(utc_now, utc_now + 1)),
             "signature", EMPTY_SIGNATURE)
    /\ clock' = clock + 1
    /\ acted' = [k \in 1..Len(rules) |-> 0]
    /\ failures' = <<>>
    /\ report_failed' = FALSE
    /\ LET notes == IF Has(processed_crash, "processor_notes")
                    THEN append_note(initial_processor_notes,
                                     earlier_processing_note(processed_crash))
                    ELSE initial_processor_notes
       IN  processor_meta_data' =
             [processor_notes |-> notes,
              started_timestamp |->
                  IF uuid_lookup_raises(raw) THEN "<unset>" ELSE logger_info]
    /\ IF uuid_lookup_raises(raw)
       THEN /\ pc' = "raised"
            /\ rule_index' = 0
            /\ propagated' = "KeyError"
       ELSE /\ pc' = "rules"
            /\ rule_index' = 1
            /\ propagated' = "none"
    /\ UNCHANGED <<workers, rules, closed>>

\* Line 272, act() returns.
RuleActs ==
    /\ pc = "rules"
    /\ rule_index <= Len(rules)
    /\ processed_crash' = act(rules[rule_index], processed_crash)
    /\ acted' = [acted EXCEPT ![rule_index] = @ + 1]
    /\ rule_index' = rule_index + 1
    /\ UNCHANGED <<workers, pc, rules, raw_crash, processor_meta_data,
                   original_processor_notes, clock, runs, failures,
                   report_failed, propagated, notes_before, started_before,
                   closed>>

\* Lines 272-285, act() raises an exception of class cls.
RuleRaises(cls, outcome) ==
    /\ pc = "rules"
    /\ rule_index <= Len(rules)
    /\ cls \in RaisedBy(rules[rule_index])
    /\ acted' = [acted EXCEPT ![rule_index] = @ + 1]
    /\ IF ~is_caught(cls)
       THEN /\ pc' = "raised"
            /\ propagated' = cls
            /\ UNCHANGED <<processor_meta_data, rule_index, failures,
                           report_failed>>
       ELSE IF capture_error_raises(outcome)
       THEN /\ pc' = "raised"
            /\ propagated' = "TelemetryError"
            /\ report_failed' = TRUE
            /\ UNCHANGED <<processor_meta_data, rule_index, failures>>
       ELSE /\ processor_meta_data' =
                 [processor_meta_data EXCEPT !.processor_notes =
                     append_note(@, rule_failure_note(rules[rule_index], cls))]
            /\ failures' = Append(failures, [rule |-> rule_index, cls |-> cls])
            /\ report_failed' = (report_failed \/ outcome = "transport_failed")
            /\ rule_index' = next_rule_after_failure(rule_index, Len(rules))
            /\ UNCHANGED <<pc, propagated>>
    /\ UNCHANGED <<workers, rules, processed_crash, raw_crash,
                   original_processor_notes, clock, runs, notes_before,
                   started_before, closed>>

\* Lines 287-289: the loop is over.
SetSuccess ==
    /\ pc = "rules"
    /\ rule_index > Len(rules)
    /\ processed_crash' = Put(processed_crash, "success", success_value(failures))
    /\ pc' = "success_set"
    /\ UNCHANGED <<workers, rules, raw_crash, processor_meta_data,
                   original_processor_notes, rule_index, clock, runs, acted,
                   failures, report_failed, propagated, notes_before,
                   started_before, closed>>

\* Lines 291-294: the notes are joined and stored.
StoreNotes ==
    /\ pc = "success_set"
    /\ LET notes == all_processor_notes(processor_meta_data.processor_notes,
                                        original_processor_notes)
       IN  /\ processor_meta_data' =
                 [processor_meta_data EXCEPT !.processor_notes = notes]
           /\ processed_crash' =
                 Put(processed_crash, "processor_notes", join(notes))
    /\ pc' = "notes_stored"
    /\ UNCHANGED <<workers, rules, raw_crash, original_processor_notes, rule_index,
                   clock, runs, acted, failures, report_failed, propagated,
                   notes_before, started_before, closed>>

\* Lines 295-306: the completion timestamps are stored and the crash returned.
FinishProcessCrash ==
    /\ pc = "notes_stored"
    /\ processed_crash' =
         Put(Put(processed_crash,
             "completed_datetime", utc_now),
             "completeddatetime", completeddatetime_value(utc_now, utc_now + 1))
    /\ clock' = clock + 1
    /\ pc' = "returned"
    /\ UNCHANGED <<workers, rules, raw_crash, processor_meta_data,
                   original_processor_notes, rule_index, runs, acted,
                   failures, report_failed, propagated, notes_before,
                   started_before, closed>>

----------------------------------------------------------------------------
(* ProcessorPipeline.close *)

\* Classes a rule's close() raises.
CloseExceptionClasses == {"OSError"}

Close ==
    /\ pc \in {"idle", "returned", "raised"}
    /\ pc' = "closing"
    /\ rule_index' = 1
    /\ UNCHANGED <<workers, rules, processed_crash, raw_crash, processor_meta_data,
                   original_processor_notes, clock, runs, acted, failures,
                   report_failed, propagated, notes_before, started_before,
                   closed>>

\* rule.close() returns.
CloseRule ==
    /\ pc = "closing"
    /\ rule_index <= Len(rules)
    /\ closed' = [closed EXCEPT ![rule_index] = @ + 1]
    /\ rule_index' = rule_index + 1
    /\ UNCHANGED <<workers, pc, rules, processed_crash, raw_crash, processor_meta_data,
                   original_processor_notes, clock, runs, acted, failures,
                   report_failed, propagated, notes_before, started_before>>

\* rule.close() raises: nothing in close() catches it.
CloseRuleRaises(cls) ==
    /\ pc = "closing"
    /\ rule_index <= Len(rules)
    /\ closed' = [closed EXCEPT ![rule_index] = @ + 1]
    /\ pc' = "close_raised"
    /\ propagated' = cls
    /\ UNCHANGED <<workers, rules, processed_crash, raw_crash, processor_meta_data,
                   original_processor_notes, rule_index, clock, runs, acted,
                   failures, report_failed, notes_before, started_before>>

CloseReturns ==
    /\ pc = "closing"
    /\ rule_index > Len(rules)
    /\ pc' = "closed"
    /\ UNCHANGED <<workers, rules, processed_crash, raw_crash, processor_meta_data,
                   original_processor_notes, rule_index, clock, runs, acted,
                   failures, report_failed, propagated, notes_before,
                   started_before, closed>>

----------------------------------------------------------------------------
(* process_crash called by several threads on one pipeline *)

Workers == {"w1", "w2"}

\* A thread that has not called process_crash yet, holding the processed
\* crash it will pass.
IdleWorker(crash) ==
    [pc |-> "idle",
     raw_crash |-> EmptyDict,
     processed_crash |-> crash,
     processor_meta_data |->
         [processor_notes |-> <<>>, started_timestamp |-> "<unset>"],
     original_processor_notes |-> <<>>,
     rule_index |-> 0,
     failures |-> <<>>,
     notes_before |-> <<"<absent>">>,
     started_before |-> -1]

\* Variant: the metadata is kept on the pipeline, one object for all calls.
processor_meta_data_on_self(w) == "w1"

\* Line 239: processor_meta_data is a DotDict the call creates, a local of
\* the calling thread.
processor_meta_data_of(w) == w

\* Lines 239-267 on thread w.
WorkerBegins(w, raw) ==
    /\ pc = "idle"
    /\ workers[w].pc = "idle"
    /\ LET crash == workers[w].processed_crash
           notes == IF Has(crash, "processor_notes")
                    THEN append_note(initial_processor_notes,
                                     earlier_processing_note(crash))
                    ELSE initial_processor_notes
           meta  == [processor_notes |-> notes,
                     started_timestamp |->
                         IF uuid_lookup_raises(raw) THEN "<unset>" ELSE logger_info]
           own   == [workers[w] EXCEPT
                       !.pc = IF uuid_lookup_raises(raw) THEN "raised" ELSE "rules",
                       !.raw_crash = raw,
                       !.notes_before = Get(crash, "processor_notes", <<"<absent>">>),
                       !.started_before = Get(crash, "started_datetime", -1),
                       !.original_processor_notes =
                           IF Has(crash, "processor_notes")
                           THEN split_notes(crash["processor_notes"])
                           ELSE <<>>,
                       !.processed_crash =
                           Put(Put(Put(Put(crash,
                               "success", initial_success),
                               "started_datetime", utc_now),
                               "startedDateTime",
                                   startedDateTime_value(utc_now, utc_now + 1)),
                               "signature", EMPTY_SIGNATURE),
                       !.rule_index = IF uuid_lookup_raises(raw) THEN 0 ELSE 1,
                       !.failures = <<>>]
       IN  workers' = [[workers EXCEPT ![w] = own] EXCEPT
                          ![processor_meta_data_of(w)].processor_meta_data = meta]
    /\ clock' = clock + 1
    /\ UNCHANGED <<pc, rules, processed_crash, raw_crash, processor_meta_data,
                   original_processor_notes, rule_index, runs, acted, failures,
                   report_failed, propagated, notes_before, started_before,
                   closed>>

\* Line 272 on thread w, act() returns.
WorkerRuleActs(w) ==
    /\ workers[w].pc = "rules"
    /\ workers[w].rule_index <= Len(rules)
    /\ workers' = [workers EXCEPT
                      ![w].processed_crash =
                          act(rules[workers[w].rule_index], @),
                      ![w].rule_index = @ + 1]
    /\ UNCHANGED <<pc, rules, processed_crash, raw_crash, processor_meta_data,
                   original_processor_notes, rule_index, clock, runs, acted,
                   failures, report_failed, propagated, notes_before,
                   started_before, closed>>

\* Lines 272-285 on thread w, act() raises an exception of class cls.
WorkerRuleRaises(w, cls, outcome) ==
    /\ workers[w].pc = "rules"
    /\ workers[w].rule_index <= Len(rules)
    /\ cls \in RaisedBy(rules[workers[w].rule_index])
    /\ IF ~is_caught(cls) \/ capture_error_raises(outcome)
       THEN workers' = [workers EXCEPT ![w].pc = "raised"]
       ELSE LET index == workers[w].rule_index
                own   == [workers[w] EXCEPT
                            !.failures = Append(@, [rule |-> index, cls |-> cls]),
                            !.rule_index =
                                next_rule_after_failure(index, Len(rules))]
            IN  workers' = [[workers EXCEPT ![w] = own] EXCEPT
                               ![processor_meta_data_of(w)]
                                   .processor_meta_data.processor_notes =
                                   append_note(@, rule_failure_note(rules[index], cls))]
    /\ UNCHANGED <<pc, rules, processed_crash, raw_crash, processor_meta_data,
                   original_processor_notes, rule_index, clock, runs, acted,
                   failures, report_failed, propagated, notes_before,
                   started_before, closed>>

\* Lines 287-306 on thread w.
WorkerFinishes(w) ==
    /\ workers[w].pc = "rules"
    /\ workers[w].rule_index > Len(rules)
    /\ LET notes == all_processor_notes(
                        workers[processor_meta_data_of(w)]
                            .processor_meta_data.processor_notes,
                        workers[w].original_processor_notes)
           own   == [workers[w] EXCEPT
                       !.pc = "returned",
                       !.processed_crash =
                           Put(Put(Put(Put(@,
                               "success", success_value(workers[w].failures)),
                               "processor_notes", join(notes)),
                               "completed_datetime", utc_now),
                               "completeddatetime",
                                   completeddatetime_value(utc_now, utc_now + 1))]
       IN  workers' = [[workers EXCEPT ![w] = own] EXCEPT
                          ![processor_meta_data_of(w)]
                              .processor_meta_data.processor_notes = notes]
    /\ clock' = clock + 1
    /\ UNCHANGED <<pc, rules, processed_crash, raw_crash, processor_meta_data,
                   original_processor_notes, rule_index, runs, acted, failures,
                   report_failed, propagated, notes_before, started_before,
                   closed>>

----------------------------------------------------------------------------
(* The specification *)

Init ==
    /\ pc = "new"
    /\ rules = <<>>
    /\ processed_crash \in ProcessedCrashes
    /\ raw_crash = EmptyDict
    /\ processor_meta_data =
         [processor_notes |-> <<>>, started_timestamp |-> "<unset>"]
    /\ original_processor_notes = <<>>
    /\ rule_index = 0
    /\ clock = 1
    /\ runs = 0
    /\ acted = <<>>
    /\ failures = <<>>
    /\ report_failed = FALSE
    /\ propagated = "none"
    /\ notes_before = <<"<absent>">>
    /\ started_before = -1
    /\ closed = <<>>
    /\ workers = [w \in Workers |-> IdleWorker(EmptyDict)]

Next ==
    \/ \E rulesArg \in RuleArgs : Construct(rulesArg)
    \/ \E raw \in RawCrashes : BeginProcessCrash(raw)
    \/ RuleActs
    \/ \E cls \in ExceptionClasses, outcome \in TelemetryOutcomes :
           RuleRaises(cls, outcome)
    \/ SetSuccess
    \/ StoreNotes
    \/ FinishProcessCrash
    \/ Close
    \/ CloseRule
    \/ \E cls \in CloseExceptionClasses : CloseRuleRaises(cls)
    \/ CloseReturns

Spec == Init /\ [][Next]_vars

\* A call of process_crash is sequential code on one thread: as long as every
\* act() terminates, its next step is taken.
ProcessCrashStep ==
    \/ RuleActs
    \/ \E cls \in ExceptionClasses, outcome \in TelemetryOutcomes :
           RuleRaises(cls, outcome)
    \/ SetSuccess
    \/ StoreNotes
    \/ FinishProcessCrash

FairSpec == Spec /\ WF_vars(ProcessCrashStep)

\* The pipeline built without a rules argument, ProcessorPipeline(config).  Its
\* workload: the rules that run an external program are the ones that fail.
ExternalToolRuleRaises(cls, outcome) ==
    /\ pc = "rules"
    /\ rule_index <= Len(rules)
    /\ rules[rule_index] \in ExternalToolRules
    /\ RuleRaises(cls, outcome)

NextDefault ==
    \/ Construct(<<>>)
    \/ \E raw \in RawCrashes : BeginProcessCrash(raw)
    \/ RuleActs
    \/ \E cls \in ExceptionClasses, outcome \in TelemetryOutcomes :
           ExternalToolRuleRaises(cls, outcome)
    \/ SetSuccess
    \/ StoreNotes
    \/ FinishProcessCrash
    \/ Close
    \/ CloseRule
    \/ \E cls \in CloseExceptionClasses : CloseRuleRaises(cls)
    \/ CloseReturns

SpecDefault == Init /\ [][NextDefault]_vars

\* Several threads, each calling process_crash once on the same pipeline with
\* its own raw crash and processed crash.
InitConc ==
    /\ pc = "new"
    /\ rules = <<>>
    /\ processed_crash = EmptyDict
    /\ raw_crash = EmptyDict
    /\ processor_meta_data =
         [processor_notes |-> <<>>, started_timestamp |-> "<unset>"]
    /\ original_processor_notes = <<>>
    /\ rule_index = 0
    /\ clock = 1
    /\ runs = 0
    /\ acted = <<>>
    /\ failures = <<>>
    /\ report_failed = FALSE
    /\ propagated = "none"
    /\ notes_before = <<"<absent>">>
    /\ started_before = -1
    /\ closed = <<>>
    /\ workers \in [Workers -> {IdleWorker(crash) : crash \in ProcessedCrashes}]

NextConc ==
    \/ \E rulesArg \in RuleArgs : Construct(rulesArg)
    \/ \E w \in Workers, raw \in RawCrashes : WorkerBegins(w, raw)
    \/ \E w \in Workers : WorkerRuleActs(w)
    \/ \E w \in Workers, cls \in ExceptionClasses, outcome \in TelemetryOutcomes :
           WorkerRuleRaises(w, cls, outcome)
    \/ \E w \in Workers : WorkerFinishes(w)

ConcSpec == InitConc /\ [][NextConc]_vars

----------------------------------------------------------------------------
(* Vocabulary of the properties *)

\* The entries a reader of a stored notes string sees.
NoteEntries(notes) ==
    LET parts == split(notes) IN [k \in 1..Len(parts) |-> strip(parts[k])]

IsSuffix(s, t) ==
    /\ Len(s) <= Len(t)
    /\ SubSeq(t, Len(t) - Len(s) + 1, Len(t)) = s

Count(list, entry) == Cardinality({k \in 1..Len(list) : list[k] = entry})

NotesAbsent == <<"<absent>">>

Returned == pc = "returned"

FinalNotes == processed_crash["processor_notes"]

\* The entries the prior runs left, and the entries this run put before them.
PriorEntries == IF notes_before = NotesAbsent THEN <<>> ELSE NoteEntries(notes_before)

CurrentEntries ==
    LET all == NoteEntries(FinalNotes)
    IN  SubSeq(all, 1, Len(all) - Len(PriorEntries))

FailedPositions == {failures[k].rule : k \in 1..Len(failures)}

RuleClassNames == {rules[k] : k \in 1..Len(rules)}

\* "rule <rule-name> failed: <error-kind>"
PrefixedFailureNote(rule, cls) == Word("rule " \o rule \o " failed: " \o cls)

\* "<rule-name> failed: <error-kind>"
BareFailureNote(rule, cls) == Word(rule \o " failed: " \o cls)

\* An entry that reports the failure of the rule with class cls, in either form.
ReportsFailure(entry, rule, cls) ==
    entry \in {PrefixedFailureNote(rule, cls), BareFailureNote(rule, cls)}

FailureEntryForms ==
    {PrefixedFailureNote(r, c) : r \in RuleClassNames, c \in ExceptionClasses}
    \cup {BareFailureNote(r, c) : r \in RuleClassNames, c \in ExceptionClasses}

IsFailureEntry(entry) == entry \in FailureEntryForms

EarlierProcessingNote ==
    Word("earlier processing: " \o
         (IF started_before = -1 THEN "Unknown Date" ELSE ToString(started_before)))

----------------------------------------------------------------------------
(* C1 *)

\* C1: fault isolation.  When a rule's act() raises an exception derived from
\* Exception and the raw crash has a uuid, no such exception leaves
\* process_crash; when the call returns, every rule was invoked once, the
\* fields written by the rules that did not fail are in the returned crash,
\* and success is TRUE.
C1_FaultIsolation ==
    /\ (pc = "raised" /\ Has(raw_crash, "uuid")) => ~IsExceptionSubclass(propagated)
    /\ Returned =>
         /\ \A k \in 1..Len(rules) : acted[k] = 1
         /\ \A k \in 1..Len(rules) :
                k \notin FailedPositions => Has(processed_crash, rules[k])
         /\ processed_crash["success"] = TRUE

C1_Witness ==
    /\ Returned
    /\ Len(rules) = 3
    /\ failures = <<[rule |-> 2, cls |-> "KeyError"]>>
    /\ Has(processed_crash, rules[1])
    /\ Has(processed_crash, rules[3])

----------------------------------------------------------------------------
(* C2 *)

\* C2: whenever process_crash returns, success is TRUE, however many rules
\* failed, also when every rule failed.
C2_SuccessOnReturn == Returned => processed_crash["success"] = TRUE

C2_Witness ==
    /\ Returned
    /\ Len(rules) = 3
    /\ Len(failures) = 3
    /\ processed_crash["success"] = TRUE

----------------------------------------------------------------------------
(* C3 *)

\* C3 as stated: in the final notes, each rule that failed has exactly one
\* entry reporting its failure, and the failure entries are as many as the
\* failed rules.
C3_Original ==
    Returned =>
        LET all == NoteEntries(FinalNotes)
            forms == FailureEntryForms
        IN  /\ \A k \in 1..Len(failures) :
                   Cardinality({j \in 1..Len(all) :
                       ReportsFailure(all[j], rules[failures[k].rule],
                                      failures[k].cls)}) = 1
            /\ Cardinality({j \in 1..Len(all) : all[j] \in forms})
                   = Len(failures)

\* C3 amended: among the entries the current run added (those before the
\* entries kept from earlier runs), each rule that failed has exactly one
\* entry "rule <rule-name> failed: <error-kind>", which holds the class of
\* the exception and not its message; a rule that did not fail has none; the
\* failure entries of the run are as many as the failed rules.
C3_FailureNotes ==
    Returned =>
        LET current == CurrentEntries
            forms == {PrefixedFailureNote(r, c) :
                          r \in RuleClassNames, c \in ExceptionClasses}
        IN  /\ \A k \in 1..Len(failures) :
                   Count(current,
                         PrefixedFailureNote(rules[failures[k].rule],
                                             failures[k].cls)) = 1
            /\ \A k \in 1..Len(rules) :
                   k \notin FailedPositions =>
                       \A c \in ExceptionClasses :
                           /\ Count(current, PrefixedFailureNote(rules[k], c)) = 0
                           /\ Count(current, BareFailureNote(rules[k], c)) = 0
            /\ Cardinality({j \in 1..Len(current) : current[j] \in forms})
                   = Len(failures)
            /\ Len(current) =
                   Len(failures) + (IF notes_before = NotesAbsent THEN 2 ELSE 3)

C3_Witness ==
    /\ Returned
    /\ Len(rules) = 3
    /\ Len(failures) = 2
    /\ notes_before # NotesAbsent
    /\ LET prior == PriorEntries
       IN  \E j \in 1..Len(prior) : IsFailureEntry(prior[j])

----------------------------------------------------------------------------
(* C4 *)

OnlyRuleTwoFailed ==
    /\ Returned
    /\ Len(rules) >= 2
    /\ notes_before = <<"A", ";", " ", "B">>
    /\ Len(failures) = 1
    /\ failures[1].rule = 2

\* C4 as stated: with prior notes "A; B" and only rule 2 failing, the final
\* notes are the failure note of rule 2, then "A", then "B".
C4_Original ==
    OnlyRuleTwoFailed =>
        \E note \in {PrefixedFailureNote(rules[2], failures[1].cls),
                     BareFailureNote(rules[2], failures[1].cls)} :
            FinalNotes = join(<<note, Word("A"), Word("B")>>)

\* C4 amended: with prior notes "A; B" and only rule 2 failing, the final
\* notes are "<processor name>; ProcessorPipeline; earlier processing: <start
\* of the previous run, or Unknown Date>; rule <rule 2> failed: <class>; A; B".
C4_ReprocessingNotes ==
    OnlyRuleTwoFailed =>
        FinalNotes = join(<<processor_name, class_name, EarlierProcessingNote,
                            PrefixedFailureNote(rules[2], failures[1].cls),
                            Word("A"), Word("B")>>)

C4_Witness == OnlyRuleTwoFailed /\ Len(rules) = 3 /\ started_before = 0

----------------------------------------------------------------------------
(* C5 *)

\* C5: the entries of the notes a run found on the processed crash are the
\* last entries of the notes it leaves, in their order, behind every entry of
\* the run; the notes a run leaves hold no blank-padded entry, so that the
\* next run keeps them, behind "; ", as the end of its own notes.
C5_AuditHistory ==
    (Returned /\ notes_before # NotesAbsent) =>
        LET all == NoteEntries(FinalNotes)
            prior == PriorEntries
        IN  /\ Len(prior) < Len(all)
            /\ SubSeq(all, Len(all) - Len(prior) + 1, Len(all)) = prior
            /\ join(all) = FinalNotes
            /\ join(prior) = notes_before =>
                   IsSuffix(<<";", " ">> \o notes_before, FinalNotes)

C5_Witness ==
    /\ Returned
    /\ runs = 2
    /\ Len(failures) >= 1
    /\ Len(PriorEntries) >= 6
    /\ IsSuffix(<<";", " ">> \o notes_before, FinalNotes)

----------------------------------------------------------------------------
(* C6 *)

\* C6: in the returned crash started_datetime equals startedDateTime and
\* completed_datetime equals completeddatetime, also when the crash carried
\* timestamps of an earlier run.
C6_TimestampPairs ==
    Returned =>
        /\ processed_crash["started_datetime"] = processed_crash["startedDateTime"]
        /\ processed_crash["completed_datetime"] = processed_crash["completeddatetime"]

C6_Witness ==
    /\ Returned
    /\ started_before >= 0
    /\ processed_crash["started_datetime"] > started_before
    /\ processed_crash["completed_datetime"] > processed_crash["started_datetime"]

----------------------------------------------------------------------------
(* C7 *)

----------------------------------------------------------------------------
(* C8 *)

----------------------------------------------------------------------------
(* C9 *)

\* C9: when close() has ended, by returning or by raising, every rule of the
\* pipeline has received close() exactly once.
C9_EveryRuleClosedOnce ==
    pc \in {"closed", "close_raised"} => \A k \in 1..Len(rules) : closed[k] = 1

----------------------------------------------------------------------------
(* C10 *)

\* C10: no rule list that places a dependent rule before its dependency is
\* accepted by the constructor and then used by process_crash.
C10_NoMisorderedPipeline ==
    pc \in {"idle", "rules"} => DependencyOrdered(rules)

----------------------------------------------------------------------------
(* C11 *)

PositionsOf(rule) == {k \in 1..Len(rules) : rules[k] = rule}

\* C11: in the rule list get_ruleset builds, every rule class appears once,
\* SignatureGeneratorRule comes after every other rule except
\* JitCrashCategorizeRule, and JitCrashCategorizeRule comes after
\* SignatureGeneratorRule and is the last rule; so when the signature
\* generator is applied every rule before it has been applied, and the jit
\* classifier has not.
C11_RulesetOrder ==
    pc # "new" =>
        /\ \A a, b \in 1..Len(rules) : a # b => rules[a] # rules[b]
        /\ Cardinality(PositionsOf("SignatureGeneratorRule")) = 1
        /\ Cardinality(PositionsOf("JitCrashCategorizeRule")) = 1
        /\ \A g \in PositionsOf("SignatureGeneratorRule"),
              j \in PositionsOf("JitCrashCategorizeRule") :
               /\ g < j
               /\ j = Len(rules)
               /\ \A k \in 1..Len(rules) : (k # g /\ k # j) => k < g
               /\ (pc = "rules" /\ rule_index = g) =>
                      /\ \A k \in 1..(g - 1) : acted[k] = 1
                      /\ acted[j] = 0

C11_Witness ==
    /\ pc = "rules"
    /\ Len(rules) = 34
    /\ rule_index = 34
    /\ rules[rule_index] = "JitCrashCategorizeRule"
    /\ Has(processed_crash, "SignatureGeneratorRule")
    /\ failures = <<[rule |-> 11, cls |-> "KeyError"]>>

----------------------------------------------------------------------------
(* C12 *)

IsPrefix(s, t) ==
    /\ Len(s) <= Len(t)
    /\ SubSeq(t, 1, Len(s)) = s

IsPrefixedFailureEntry(entry) ==
    \E r \in RuleClassNames, c \in ExceptionClasses :
        entry = PrefixedFailureNote(r, c)

\* The failure entries of the rules that failed, in the order they failed.
ExpectedFailureEntries ==
    [k \in 1..Len(failures) |->
        PrefixedFailureNote(rules[failures[k].rule], failures[k].cls)]

FailureNotesInPipelineOrder ==
    Returned =>
        /\ \A a, b \in 1..Len(failures) :
               a < b => failures[a].rule < failures[b].rule
        /\ SelectSeq(CurrentEntries, IsPrefixedFailureEntry) = ExpectedFailureEntries

\* C12: within one invocation every step leaves the note list as it was or
\* longer at its end, never shorter or reordered; the failure notes of the
\* run stand in the returned notes in the order of the failing rules in the
\* pipeline.
C12_NotesAppendOnly ==
    /\ [][ runs' = runs =>
               IsPrefix(processor_meta_data.processor_notes,
                        processor_meta_data'.processor_notes) ]_vars
    /\ []FailureNotesInPipelineOrder

C12_Witness ==
    /\ Returned
    /\ Len(rules) = 3
    /\ Len(failures) = 2
    /\ failures[1].rule = 1
    /\ failures[2].rule = 3
    /\ notes_before # NotesAbsent

----------------------------------------------------------------------------
(* C13 *)

NotComputedSignature == Word("EMPTY: crash failed to process")

NoRuleWroteSignature ==
    \A k \in 1..Len(rules) :
        rules[k] = "SignatureGeneratorRule" => k \in FailedPositions

\* C13: when the first rule is about to be applied, success is FALSE, both
\* start timestamps hold the reading of the clock taken by this call, and the
\* signature is the "not computed" sentinel, whatever an earlier run left;
\* when the call returns and no rule wrote the signature, the crash has the
\* sentinel signature and success TRUE.
C13_InitialisedBeforeRules ==
    /\ (pc = "rules" /\ rule_index = 1) =>
         /\ processed_crash["success"] = FALSE
         /\ processed_crash["started_datetime"] = clock - 1
         /\ processed_crash["startedDateTime"] = clock - 1
         /\ processed_crash["started_datetime"] > started_before
         /\ processed_crash["signature"] = NotComputedSignature
    /\ (Returned /\ NoRuleWroteSignature) =>
         /\ processed_crash["signature"] = NotComputedSignature
         /\ processed_crash["success"] = TRUE

C13_Witness ==
    /\ Returned
    /\ NoRuleWroteSignature
    /\ \E k \in FailedPositions : rules[k] = "SignatureGeneratorRule"
    /\ notes_before = <<"A", ";", " ", "B">>
    /\ started_before = 0
    /\ processed_crash["signature"] = NotComputedSignature

----------------------------------------------------------------------------
(* C14 *)

\* While the loop runs, the rules before the current position have been
\* invoked once each and the others not yet; after the loop every rule has
\* been invoked once.
RulesInvokedOnceInOrder ==
    /\ pc = "rules" =>
         \A k \in 1..Len(rules) : acted[k] = IF k < rule_index THEN 1 ELSE 0
    /\ pc \in {"success_set", "notes_stored", "returned"} =>
         \A k \in 1..Len(rules) : acted[k] = 1

\* C14: when every act() terminates, one call of process_crash invokes every
\* rule exactly once, in pipeline order, whether or not earlier rules failed,
\* and eventually returns the processed crash; only an exception that is not
\* a subclass of Exception ends the call otherwise.
C14_RunToCompletion ==
    /\ []RulesInvokedOnceInOrder
    /\ (pc = "rules") ~>
           (pc = "returned" \/ (pc = "raised" /\ propagated = "SystemExit"))

C14_Witness ==
    /\ Returned
    /\ Len(rules) = 3
    /\ Len(failures) = 1
    /\ failures[1].rule = 1
    /\ \A k \in 1..Len(rules) : acted[k] = 1

----------------------------------------------------------------------------
(* C15 *)

\* The completion timestamp on the crash is not one this call wrote.
CompletionNotOfThisRun ==
    \/ ~Has(processed_crash, "completed_datetime")
    \/ processed_crash["completed_datetime"] < processed_crash["started_datetime"]

StoredNotesUntouched ==
    Get(processed_crash, "processor_notes", NotesAbsent) = notes_before

\* C15: while the rules are applied success is FALSE; success is TRUE once
\* the last rule has been attempted; the joined notes are stored after that,
\* and the completion timestamps after the notes.
C15_OrderOfFinalWrites ==
    /\ pc = "rules" =>
         /\ processed_crash["success"] = FALSE
         /\ StoredNotesUntouched
         /\ CompletionNotOfThisRun
    /\ pc = "success_set" =>
         /\ processed_crash["success"] = TRUE
         /\ \A k \in 1..Len(rules) : acted[k] = 1
         /\ StoredNotesUntouched
         /\ CompletionNotOfThisRun
    /\ pc = "notes_stored" =>
         /\ processed_crash["success"] = TRUE
         /\ processed_crash["processor_notes"] =
                join(processor_meta_data.processor_notes)
         /\ CompletionNotOfThisRun
    /\ Returned =>
         /\ processed_crash["success"] = TRUE
         /\ processed_crash["completed_datetime"] > processed_crash["started_datetime"]

C15_Witness ==
    /\ pc = "success_set"
    /\ Len(rules) = 3
    /\ Len(failures) = 1
    /\ Has(processed_crash, "completed_datetime")
    /\ notes_before # NotesAbsent
    /\ StoredNotesUntouched

----------------------------------------------------------------------------
(* C16 *)

\* C16: when a rule is applied, the started_timestamp of the metadata handed
\* to it holds a time value.
C16_StartTimeInMetadata ==
    (pc = "rules" /\ rule_index <= Len(rules)) =>
        processor_meta_data.started_timestamp \notin {"None", "<unset>"}

----------------------------------------------------------------------------
(* C17 *)

\* What the call of thread w leaves when nothing else runs: the entries of
\* its notes, from its own prior notes and its own failures only.
NotesWhenAlone(w) ==
    LET wk       == workers[w]
        leading  == IF wk.notes_before = NotesAbsent
                    THEN <<Word("processor-1"), Word("ProcessorPipeline")>>
                    ELSE <<Word("processor-1"), Word("ProcessorPipeline"),
                           Word("earlier processing: " \o
                                (IF wk.started_before = -1
                                 THEN "Unknown Date"
                                 ELSE ToString(wk.started_before)))>>
        failed   == [k \in 1..Len(wk.failures) |->
                        PrefixedFailureNote(rules[wk.failures[k].rule],
                                            wk.failures[k].cls)]
        prior    == IF wk.notes_before = NotesAbsent
                    THEN <<>>
                    ELSE NoteEntries(wk.notes_before)
    IN  leading \o failed \o prior

WorkerFailedPositions(w) ==
    {workers[w].failures[k].rule : k \in 1..Len(workers[w].failures)}

ResultAsWhenAlone(w) ==
    LET crash == workers[w].processed_crash
    IN  /\ NoteEntries(crash["processor_notes"]) = NotesWhenAlone(w)
        /\ crash["success"] = TRUE
        /\ \A k \in 1..Len(rules) :
               Has(crash, rules[k]) <=> k \notin WorkerFailedPositions(w)
        /\ crash["completed_datetime"] > crash["started_datetime"]
        /\ crash["started_datetime"] > workers[w].started_before

\* C17: when several threads run process_crash on one pipeline at the same
\* time, each with its own raw crash and processed crash, under every
\* interleaving the crash a thread gets back is the one it would get alone:
\* its notes hold the entries of its own run and its own prior notes only;
\* and process_crash never changes the rule list of the pipeline.
C17_ConcurrentCallsIsolated ==
    /\ [](\A w \in Workers : workers[w].pc = "returned" => ResultAsWhenAlone(w))
    /\ [][pc # "new" => rules' = rules]_vars

\* Both threads have returned, the second having begun while the first was
\* running, each with failures of its own.
C17_Witness ==
    /\ workers["w1"].pc = "returned"
    /\ workers["w2"].pc = "returned"
    /\ workers["w1"].processed_crash["started_datetime"]
           < workers["w2"].processed_crash["started_datetime"]
    /\ workers["w2"].processed_crash["started_datetime"]
           < workers["w1"].processed_crash["completed_datetime"]
    /\ workers["w1"].failures # <<>>
    /\ workers["w2"].failures # <<>>
    /\ workers["w1"].failures # workers["w2"].failures
    /\ workers["w1"].notes_before # workers["w2"].notes_before

----------------------------------------------------------------------------
(* C18 *)

\* C18: a raw crash without uuid makes process_crash raise KeyError before
\* any rule is invoked and before any failure is reported; the processed
\* crash is left with success FALSE, the sentinel signature, both start
\* timestamps set by this call, no completion timestamp of this call, and
\* the notes it had.
C18_MissingUuid ==
    /\ (runs >= 1 /\ ~Has(raw_crash, "uuid")) =>
         pc \notin {"rules", "success_set", "notes_stored", "returned"}
    /\ (pc = "raised" /\ ~Has(raw_crash, "uuid")) =>
         /\ propagated = "KeyError"
         /\ \A k \in 1..Len(rules) : acted[k] = 0
         /\ failures = <<>>
         /\ ~report_failed
         /\ processed_crash["success"] = FALSE
         /\ processed_crash["signature"] = NotComputedSignature
         /\ processed_crash["started_datetime"] = clock - 1
         /\ processed_crash["startedDateTime"] = clock - 1
         /\ CompletionNotOfThisRun
         /\ StoredNotesUntouched

C18_Witness ==
    /\ pc = "raised"
    /\ ~Has(raw_crash, "uuid")
    /\ notes_before = <<"A", ";", " ", "B">>
    /\ Has(processed_crash, "completed_datetime")
    /\ processed_crash["success"] = FALSE

----------------------------------------------------------------------------
(* C19 *)

\* The entries a run puts in front: the two identity entries, then the
\* "earlier processing" entry when the crash came with notes.
LeadingEntries ==
    IF notes_before = NotesAbsent
    THEN <<Word("processor-1"), Word("ProcessorPipeline")>>
    ELSE <<Word("processor-1"), Word("ProcessorPipeline"), EarlierProcessingNote>>

BeginsWithLeadingEntries(list) ==
    /\ Len(list) = Len(LeadingEntries) + Len(failures)
    /\ SubSeq(list, 1, Len(LeadingEntries)) = LeadingEntries
    /\ \A k \in (Len(LeadingEntries) + 1)..Len(list) :
           IsPrefixedFailureEntry(list[k])

\* C19: the notes of a run begin with the processor name and the class name;
\* when the crash came with notes, the third entry is "earlier processing:
\* <T>", T being the started_datetime the crash had when the call began, or
\* "Unknown Date" when it had none, and the failure notes come after it; when
\* the crash came without notes there is no such entry.
C19_LeadingEntries ==
    /\ pc \in {"rules", "success_set"} =>
           BeginsWithLeadingEntries(processor_meta_data.processor_notes)
    /\ Returned => BeginsWithLeadingEntries(CurrentEntries)

C19_Witness ==
    /\ Returned
    /\ runs = 2
    /\ started_before >= 1
    /\ Len(failures) = 1
    /\ CurrentEntries[3] = Word("earlier processing: " \o ToString(started_before))

====
